---- MODULE Spec2Model ----
(***************************************************************************)
(* State-machine model of GameEngine (src/src/engine.rs): the game loop,   *)
(* the update phase (enemy sprite clearing and injection) and the render   *)
(* pipeline (ray traversal, sprite collection, wall pass, sprite           *)
(* projection / sorting / rasterization, weapon overlay).                  *)
(*                                                                         *)
(* Lengths are integers in sub-units (S sub-units per map cell).  The      *)
(* player looks along +y; every casting ray has Euclidean length 5, so     *)
(* that (hit distance) * (fisheye cosine) is the rational t * dy.          *)
(* f64 -> i32 conversions truncate toward zero and saturate, as Rust's     *)
(* `as` does; i32 subtraction keeps its 32-bit width.                      *)
(***************************************************************************)
EXTENDS Integers, Sequences, FiniteSets, TLC

\* ---------------------------------------------------------------- bounds
Width == 3
MapW == 4
MapH == 5
S == 4
MaxFrames == 2
RenderHeightProprConst == 24
ProjPlaneDist == 2

\* ------------------------------------------------------ program constants
I32Max == 2147483647
I32Min == (-I32Max) - 1
GateSidewallLit == 101
GateSidewallUnlit == 102

\* rust-sdl2 Rect::new clamps positions and sizes to half the i32 range
RectMaxInt == I32Max \div 2
RectMinInt == -(RectMaxInt + 1)

\* ------------------------------------------------------------- arithmetic
Abs(n) == IF n < 0 THEN -n ELSE n

\* a / b computed in f64 and converted with `as i32` (b # 0): truncation
\* toward zero
TruncDiv(a, b) ==
  IF (a >= 0) = (b > 0) THEN Abs(a) \div Abs(b) ELSE -(Abs(a) \div Abs(b))

\* a - b on i32 leaves the i32 range
SubOverflows(a, b) ==
  IF b >= 0 THEN a < I32Min + b ELSE a > I32Max + b

\* a - b on i32 with two's-complement wrap-around (release build)
WrappingSub(a, b) ==
  IF ~SubOverflows(a, b) THEN a - b
  ELSE IF b >= 0 THEN (a - I32Min) + ((I32Max - b) + 1)
  ELSE (a - I32Max) + ((I32Min - b) - 1)

\* --------------------------------------------------------------- geometry
Cells == (0 .. MapW - 1) \X (0 .. MapH - 1)

WithinMap(c) == c[1] >= 0 /\ c[1] < MapW /\ c[2] >= 0 /\ c[2] < MapH

\* Point2 -> iPoint2
CellOf(p) == <<p[1] \div S, p[2] \div S>>

Dot(a, b) == a[1] * b[1] + a[2] * b[2]

ViewDir == <<0, 1>>
East == <<1, 0>>

\* directions of the casting rays, left to right (all of length 5)
AllRayDirs == << <<-4, 3>>, <<-3, 4>>, <<0, 5>>, <<3, 4>>, <<4, 3>> >>

\* castingRayAngles[x], x counted from 0: direction of column x's ray; its
\* dy / 5 is the fisheye cosine castingRayAngles[x].1
CastingRayAngles(x) == AllRayDirs[((5 - Width) \div 2) + 1 + x]

\* ------------------------------------------------------------------ tiles
NoSprite == [location |-> <<0, 0>>, textureHandle |-> <<"NONE", 0>>, owner |-> 0, frame |-> 0]

WallTile == [kind |-> "WALL", tex |-> 1, open |-> FALSE, objectSprite |-> NoSprite, enemySprites |-> <<>>]
DoorTile == [kind |-> "DOOR", tex |-> 2, open |-> FALSE, objectSprite |-> NoSprite, enemySprites |-> <<>>]
EmptyTile == [kind |-> "EMPTY", tex |-> 0, open |-> FALSE, objectSprite |-> NoSprite, enemySprites |-> <<>>]
NoneTile == [kind |-> "NONE", tex |-> 0, open |-> FALSE, objectSprite |-> NoSprite, enemySprites |-> <<>>]

ObjectTile(c) ==
  [kind |-> "OBJECT", tex |-> 0, open |-> FALSE,
   objectSprite |-> [location |-> <<c[1] * S + (S \div 2), c[2] * S + (S \div 2)>>,
                     textureHandle |-> <<"OBJECT", 1>>, owner |-> 0, frame |-> 0],
   enemySprites |-> <<>>]

\* the maps the engine is started on
MapIds == {"room", "breach", "corrupt", "door"}

ObjectCell == <<2, 2>>
BreachCell == <<2, MapH - 1>>
CorruptCell == <<1, 3>>
DoorCell == <<1, 2>>
FarDoorCell == <<2, MapH - 2>>

OnBorder(c) == c[1] = 0 \/ c[1] = MapW - 1 \/ c[2] = 0 \/ c[2] = MapH - 1

\* Map::LoadFromCSV: a room enclosed by a ring of walls, with one object;
\* "breach" has a hole in the north wall, "corrupt" an unset tile, "door" two
\* doors (one of them next to the north wall)
LoadFromCSV(m) ==
  [c \in Cells |->
     IF m = "breach" /\ c = BreachCell THEN EmptyTile
     ELSE IF OnBorder(c) THEN WallTile
     ELSE IF c = ObjectCell THEN ObjectTile(c)
     ELSE IF m = "corrupt" /\ c = CorruptCell THEN NoneTile
     ELSE IF m = "door" /\ c \in {DoorCell, FarDoorCell} THEN DoorTile
     ELSE EmptyTile]

\* places the player can stand (both in row 1, strictly inside their cell)
PlayerStart == <<S + 3, S + 1>>
PlayerSpots == {PlayerStart, <<2 * S + 1, S + 1>>}

\* the place just beyond the gap in the north wall, outside the grid
PlayerOutside == <<2 * S + 1, MapH * S + 1>>

\* places an enemy can be: A level with the player (depth 0), E behind the
\* player's line (negative depth), B in the object's tile, C and D further on
EnemySpotA == <<S + 2, S + 1>>
EnemySpotB == <<2 * S + 2, 2 * S + 3>>
EnemySpotC == <<S + 2, 3 * S + 2>>
EnemySpotD == <<2 * S + 2, 3 * S + 2>>
EnemySpotE == <<S + 2, S>>

EnemySpots(id) == IF id = 1 THEN {EnemySpotA, EnemySpotC, EnemySpotD, EnemySpotE} ELSE {EnemySpotB, EnemySpotD}

InitEnemies ==
  << [id |-> 1, location |-> EnemySpotD, tile |-> CellOf(EnemySpotD)],
     [id |-> 2, location |-> EnemySpotB, tile |-> CellOf(EnemySpotB)] >>

VARIABLES
  map,                      \* Map: cell -> Tile
  player,                   \* Player.location
  enemies,                  \* Vec<Enemy>
  quit,                     \* inputsBuffer.quit
  overflowChecks,           \* the build panics on integer overflow (debug profile)
  wallSlicesBuffer,
  spritesBuffer,
  spritesRenderDataBuffer,
  wallRenderHeights,
  spriteTileHitMap,
  pc,                       \* statement of GameLoop / Update / RenderFrame being executed
  step,                     \* 0: at the statement's entry, 1: inside its loop
  idx,                      \* loop index of the statement's loop
  rayCursor,
  prevTileCoord,
  frame,                    \* number of loop iterations started
  ops,                      \* what the current iteration has done so far, in order
  lookups,                  \* tile lookups made by the latest step
  visits                    \* GrabSprites calls per cell in the current frame

vars == <<map, player, enemies, quit, overflowChecks, wallSlicesBuffer, spritesBuffer,
          spritesRenderDataBuffer, wallRenderHeights, spriteTileHitMap, pc, step, idx,
          rayCursor, prevTileCoord, frame, ops, lookups, visits>>

\* ------------------------------------------------------- order of execution
\* mutation: the quit signal is tested after the frame is rendered
GameLoop_RenderFirst == <<"Update", "RenderFrame", "quit?">>

\* GameLoop's loop body: Update, the quit test, RenderFrame
GameLoop == <<"Update", "quit?", "RenderFrame">>

\* Update's statements, in order
Update == <<"inputsBuffer.Update", "UpdateEnemies", "player.Update", "map.UpdateDoors">>

\* mutation: the weapon overlay is drawn before the sprites
RenderFrame_WeaponEarly ==
  <<"clear", "DrawCeilingAndFloor", "RenderIntoBuffers", "DrawWallsFromBuffer",
    "DrawWeapon", "DrawSpritesFromBuffer", "present">>

\* mutation: the sprite pass runs before the wall pass
RenderFrame_SpritesFirst ==
  <<"clear", "DrawCeilingAndFloor", "RenderIntoBuffers", "DrawSpritesFromBuffer",
    "DrawWallsFromBuffer", "DrawWeapon", "present">>

\* RenderFrame's statements, in order
RenderFrame ==
  <<"clear", "DrawCeilingAndFloor", "RenderIntoBuffers", "DrawWallsFromBuffer",
    "DrawSpritesFromBuffer", "DrawWeapon", "present">>

Expand(s) == IF s = "Update" THEN Update ELSE IF s = "RenderFrame" THEN RenderFrame ELSE <<s>>

\* the statements of one loop iteration, calls expanded
Program == Expand(GameLoop[1]) \o Expand(GameLoop[2]) \o Expand(GameLoop[3])

PosOf(stmt) == CHOOSE i \in 1 .. Len(Program) : Program[i] = stmt

\* the statement executed after stmt (the loop wraps around)
NextStmt(stmt) == Program[(PosOf(stmt) % Len(Program)) + 1]

Op(name, a, b) == [op |-> name, a |-> a, b |-> b]

Lookup(site, c, tile) == [site |-> site, cell |-> c, kind |-> tile.kind]

\* ------------------------------------------------------------ map queries
\* Map::GetTile / Map::GetMutTile: the tile at c; a coordinate outside the
\* grid has no tile and yields the invalid variant
GetTile(c) == IF WithinMap(c) THEN map[c] ELSE NoneTile

\* ----------------------------------------------------------------- Init
Init ==
  /\ \E m \in MapIds : map = LoadFromCSV(m)
  /\ player = PlayerStart
  /\ enemies = InitEnemies
  /\ quit = FALSE
  /\ overflowChecks \in BOOLEAN
  /\ wallSlicesBuffer = <<>>
  /\ spritesBuffer = <<>>
  /\ spritesRenderDataBuffer = <<>>
  /\ wallRenderHeights = [i \in 1 .. Width |-> 0]
  /\ spriteTileHitMap = [c \in Cells |-> FALSE]
  /\ pc = Program[1]
  /\ step = 0
  /\ idx = 0
  /\ rayCursor = [hitTile |-> <<0, 0>>, side |-> "none", num |-> 0, den |-> 1]
  /\ prevTileCoord = <<0, 0>>
  /\ frame = 0
  /\ ops = <<>>
  /\ lookups = <<>>
  /\ visits = [c \in Cells |-> 0]

\* leave the current statement for the next one
Goto(stmt) == pc' = stmt /\ step' = 0 /\ idx' = 0

Panic(line) ==
  /\ pc' = "panicked"
  /\ step' = 0
  /\ idx' = 0
  /\ ops' = Append(ops, Op("panic", line, 0))

renderState == <<wallSlicesBuffer, spritesBuffer, spritesRenderDataBuffer, wallRenderHeights,
                 spriteTileHitMap, rayCursor, prevTileCoord, visits>>

\* --------------------------------------------------------------- Update
\* inputsBuffer.Update: polls the input; the quit signal may arrive
InputsBufferUpdate ==
  /\ pc = "inputsBuffer.Update"
  /\ frame < MaxFrames
  /\ frame' = frame + 1
  /\ \E q \in BOOLEAN : quit' = q
  /\ ops' = <<Op("inputsBuffer.Update", 0, 0)>>
  /\ lookups' = <<>>
  /\ Goto(NextStmt(pc))
  /\ UNCHANGED <<map, player, enemies, overflowChecks, renderState>>

\* mutation: the list is left as it is
ClearEnemySprites_Keep(tile) == tile

\* enemySprites.clear() on a tile
ClearEnemySprites(tile) == [tile EXCEPT !.enemySprites = <<>>]

\* the first loop of UpdateEnemies, from enemy i on, on map m: the map it
\* leaves, the lookups it made and whether it panicked
RECURSIVE WipeEnemySprites(_, _, _)
WipeEnemySprites(m, i, seen) ==
  IF i > Len(enemies) THEN [map |-> m, lookups |-> seen, panic |-> FALSE]
  ELSE LET c == enemies[i].tile
           tile == IF WithinMap(c) THEN m[c] ELSE NoneTile
           seen2 == Append(seen, Lookup("UpdateEnemies.wipe", c, tile))
       IN IF tile.kind = "NONE" THEN [map |-> m, lookups |-> seen2, panic |-> TRUE]
          ELSE IF tile.kind \in {"OBJECT", "EMPTY"}
               THEN WipeEnemySprites([m EXCEPT ![c] = ClearEnemySprites(tile)], i + 1, seen2)
               ELSE WipeEnemySprites(m, i + 1, seen2)

\* UpdateEnemies, first loop: wipe all enemy sprites from the enemies' tiles
UpdateEnemies_Wipe ==
  /\ pc = "UpdateEnemies"
  /\ step = 0
  /\ LET r == WipeEnemySprites(map, 1, <<>>)
     IN /\ map' = r.map
        /\ lookups' = r.lookups
        /\ IF r.panic THEN Panic(301)
           ELSE /\ ops' = Append(ops, Op("enemySprites.clear", 0, 0))
                /\ IF Len(enemies) = 0 THEN Goto(NextStmt(pc))
                   ELSE pc' = pc /\ step' = 1 /\ idx' = 1
  /\ UNCHANGED <<player, enemies, quit, overflowChecks, renderState, frame>>

\* Enemy::Update: the enemy moves; its occupied cell follows its location
EnemyUpdate(e, loc) == [e EXCEPT !.location = loc, !.tile = CellOf(loc)]

\* Enemy::CalculateSprite
CalculateSprite(e) ==
  [location |-> e.location, textureHandle |-> <<"ENEMY", e.id>>, owner |-> e.id, frame |-> frame]

\* enemySprites.push(sprite) on a tile
PushEnemySprite(tile, sprite) == [tile EXCEPT !.enemySprites = Append(@, sprite)]

\* UpdateEnemies, second loop, one enemy: update it and inject its sprite
\* into the tile it is in
UpdateEnemies_Inject ==
  /\ pc = "UpdateEnemies"
  /\ step = 1
  /\ \E loc \in EnemySpots(enemies[idx].id) :
       LET e == EnemyUpdate(enemies[idx], loc)
           tileCoord == CellOf(e.location)
           sprite == CalculateSprite(e)
           tile == GetTile(tileCoord)
       IN /\ enemies' = [enemies EXCEPT ![idx] = e]
          /\ lookups' = <<Lookup("UpdateEnemies.inject", tileCoord, tile)>>
          /\ IF tile.kind \in {"OBJECT", "EMPTY"}
             THEN /\ map' = [map EXCEPT ![tileCoord] = PushEnemySprite(tile, sprite)]
                  /\ ops' = Append(ops, Op("enemySprites.push", e.id, 0))
             ELSE /\ map' = map
                  /\ ops' = Append(ops, Op("enemy.skip", e.id, 0))
  /\ IF idx = Len(enemies) THEN Goto(NextStmt(pc))
     ELSE pc' = pc /\ step' = 1 /\ idx' = idx + 1
  /\ UNCHANGED <<player, quit, overflowChecks, renderState, frame>>

\* player.Update: the player moves; through a gap in the outer wall it can
\* leave the grid
PlayerUpdate ==
  /\ pc = "player.Update"
  /\ \E p \in PlayerSpots \cup (IF map[BreachCell].kind = "EMPTY" THEN {PlayerOutside} ELSE {}) :
       player' = p
  /\ ops' = Append(ops, Op("player.Update", 0, 0))
  /\ lookups' = <<>>
  /\ Goto(NextStmt(pc))
  /\ UNCHANGED <<map, enemies, quit, overflowChecks, renderState, frame>>

\* map.UpdateDoors: the doors open or close
UpdateDoors ==
  /\ pc = "map.UpdateDoors"
  /\ \E o \in BOOLEAN :
       map' = [c \in Cells |-> IF map[c].kind = "DOOR" THEN [map[c] EXCEPT !.open = o] ELSE map[c]]
  /\ ops' = Append(ops, Op("map.UpdateDoors", 0, 0))
  /\ lookups' = <<>>
  /\ Goto(NextStmt(pc))
  /\ UNCHANGED <<player, enemies, quit, overflowChecks, renderState, frame>>

\* GameLoop: if self.inputsBuffer.quit { break; }
QuitCheck ==
  /\ pc = "quit?"
  /\ ops' = Append(ops, Op("quit?", 0, 0))
  /\ lookups' = <<>>
  /\ IF quit THEN Goto("exited") ELSE Goto(NextStmt(pc))
  /\ UNCHANGED <<map, player, enemies, quit, overflowChecks, renderState, frame>>

updateState == <<map, player, enemies, quit, overflowChecks, frame>>

\* ---------------------------------------------------------- RenderFrame
\* self.multimedia.sdlCanvas.clear()
CanvasClear ==
  /\ pc = "clear"
  /\ ops' = Append(ops, Op("clear", 0, 0))
  /\ lookups' = <<>>
  /\ Goto(NextStmt(pc))
  /\ UNCHANGED <<updateState, renderState>>

DrawCeilingAndFloor ==
  /\ pc = "DrawCeilingAndFloor"
  /\ ops' = Append(ops, Op("DrawCeilingAndFloor", 0, 0))
  /\ lookups' = <<>>
  /\ Goto(NextStmt(pc))
  /\ UNCHANGED <<updateState, renderState>>

\* RayCursor::New(ray, origin): the cursor starts in the origin's cell
RayCursorNew(loc) == [hitTile |-> CellOf(loc), side |-> "none", num |-> 0, den |-> 1]

\* RayCursor::GoToNextHit: the ray from loc along dir (dir[2] > 0) leaves the
\* cursor's cell through the grid line it reaches first; num / den is the ray
\* parameter of the crossing, side the axis of the line crossed
GoToNextHit(cur, loc, dir) ==
  LET c == cur.hitTile
      dx == dir[1]
      dy == dir[2]
      distY == (c[2] + 1) * S - loc[2]
      distX == IF dx > 0 THEN (c[1] + 1) * S - loc[1] ELSE loc[1] - c[1] * S
  IN IF dx # 0 /\ distX * dy < distY * Abs(dx)
     THEN [hitTile |-> <<c[1] + (IF dx > 0 THEN 1 ELSE -1), c[2]>>, side |-> "X",
           num |-> distX, den |-> Abs(dx)]
     ELSE [hitTile |-> <<c[1], c[2] + 1>>, side |-> "Y", num |-> distY, den |-> dy]

\* Wall::GetWallSlice: the slice at the cursor's hit (dist = 5 * num / den)
WallGetWallSlice(tile, cur) ==
  [num |-> cur.num, den |-> cur.den, textureHandle |-> <<"WALL", tile.tex>>]

\* Door::GetWallSlice: None (the empty sequence) when the ray passes through
\* the door's open gap
DoorGetWallSlice(tile, cur) ==
  IF tile.open THEN <<>>
  ELSE <<[num |-> cur.num, den |-> cur.den, textureHandle |-> <<"DOOR", tile.tex>>]>>

\* LightTexture(cursor, lit, unlit): the lighting predicate on the hit state
LightTexture(cur, lit, unlit) == IF cur.side = "X" THEN lit ELSE unlit

\* ObjectTile::IsEnemyHolder: the tile currently hosts enemies
IsEnemyHolder(tile) == Len(tile.enemySprites) > 0

\* GetSprites: the tile's transient enemy sprites
GetSprites(tile) == tile.enemySprites

ResetSpriteTileHitMap == [c \in Cells |-> FALSE]

\* mutation: the tile is not marked
MarkTileHit_Skip(hitMap, c) == hitMap

\* self.spriteTileHitMap[x][y] = true
MarkTileHit(hitMap, c) == [hitMap EXCEPT ![c] = TRUE]

\* mutation: the sprites are moved out of the tile's list
GrabbedTile_Drained(tile) == [tile EXCEPT !.enemySprites = <<>>]

\* the tile GetMutTile hands to GrabSprites, as GrabSprites leaves it: the
\* sprites are copied out of it, nothing is written to it
GrabbedTile(tile) == tile

\* GrabSprites(tileCoord) on sprite buffer `sprites` and hit map `hitMap`
GrabSprites(tileCoord, sprites, hitMap) ==
  IF hitMap[tileCoord] = FALSE
  THEN LET tile == GetTile(tileCoord)
           seen == <<Lookup("GrabSprites", tileCoord, tile)>>
           left == [map EXCEPT ![tileCoord] = GrabbedTile(tile)]
       IN IF tile.kind = "OBJECT"
          THEN [sprites |-> (sprites \o <<tile.objectSprite>>)
                              \o (IF IsEnemyHolder(tile) THEN GetSprites(tile) ELSE <<>>),
                hitMap |-> MarkTileHit(hitMap, tileCoord), lookups |-> seen, panic |-> FALSE,
                map |-> left]
          ELSE IF tile.kind = "EMPTY"
          THEN [sprites |-> sprites \o GetSprites(tile),
                hitMap |-> MarkTileHit(hitMap, tileCoord), lookups |-> seen, panic |-> FALSE,
                map |-> left]
          ELSE [sprites |-> sprites, hitMap |-> hitMap, lookups |-> seen, panic |-> TRUE,
                map |-> map]
  ELSE [sprites |-> sprites, hitMap |-> hitMap, lookups |-> <<>>, panic |-> FALSE, map |-> map]

\* RenderIntoBuffers, before its column loop: clear the buffers, reset the
\* tile-hit map; then the loop starts with column 0
RenderIntoBuffers_Reset ==
  /\ pc = "RenderIntoBuffers"
  /\ step = 0
  /\ wallSlicesBuffer' = <<>>
  /\ spritesBuffer' = <<>>
  /\ spriteTileHitMap' = ResetSpriteTileHitMap
  /\ visits' = [c \in Cells |-> 0]
  /\ rayCursor' = RayCursorNew(player)
  /\ prevTileCoord' = CellOf(player)
  /\ pc' = pc
  /\ step' = 1
  /\ idx' = 0
  /\ ops' = Append(ops, Op("ResetSpriteTileHitMap", 0, 0))
  /\ lookups' = <<>>
  /\ UNCHANGED <<updateState, spritesRenderDataBuffer, wallRenderHeights>>

\* mutation: the new slice is put in front of the buffer
PushWallSlice_Front(buffer, wallSlice) == <<wallSlice>> \o buffer

\* self.wallSlicesBuffer.push(wallSlice)
PushWallSlice(buffer, wallSlice) == Append(buffer, wallSlice)

\* mutation: the traversal goes on behind the wall
AfterWallSlice_Continue == "continue"

\* what follows the push of a Wall's slice: break
AfterWallSlice == "break"

\* mutation: the door test looks at the tile the ray has entered
PrevTileWasDoor_Curr(prevTile, tile) == tile.kind = "DOOR"

\* if let Tile::DOOR(_) = self.map.GetTile(prevTileCoord) { true } else { false },
\* prevTile the tile the ray is leaving and tile the one it enters
PrevTileWasDoor(prevTile, tile) == prevTile.kind = "DOOR"

\* one evaluation of the while condition and of the loop body for column idx
RayStep ==
  LET x == idx
      cur == GoToNextHit(rayCursor, player, CastingRayAngles(x))
      currTileCoord == cur.hitTile
      prevTile == GetTile(prevTileCoord)
      tile == GetTile(currTileCoord)
      prevTileWasDoor == PrevTileWasDoor(prevTile, tile)
      seen == <<Lookup("traversal.prev", prevTileCoord, prevTile),
                Lookup("traversal", currTileCoord, tile)>>
      base == [outcome |-> "continue", cursor |-> cur, slices |-> wallSlicesBuffer,
               sprites |-> spritesBuffer, hitMap |-> spriteTileHitMap, lookups |-> seen,
               grabbed |-> <<>>, line |-> 0, map |-> map]
  IN IF ~WithinMap(rayCursor.hitTile)
     THEN [base EXCEPT !.outcome = "exit", !.cursor = rayCursor, !.lookups = <<>>]
     ELSE IF tile.kind = "WALL"
     THEN LET wallSlice == WallGetWallSlice(tile, cur)
              lit == <<"WALL", GateSidewallLit>>
              unlit == <<"WALL", GateSidewallUnlit>>
              final == IF prevTileWasDoor
                       THEN [wallSlice EXCEPT !.textureHandle = LightTexture(cur, lit, unlit)]
                       ELSE wallSlice
          IN [base EXCEPT !.outcome = AfterWallSlice,
                          !.slices = PushWallSlice(wallSlicesBuffer, final)]
     ELSE IF tile.kind = "DOOR"
     THEN LET doorWallSlice == DoorGetWallSlice(tile, cur)
          IN IF doorWallSlice # <<>>
             THEN [base EXCEPT !.outcome = "break",
                               !.slices = PushWallSlice(wallSlicesBuffer, doorWallSlice[1])]
             ELSE base
     ELSE IF tile.kind \in {"OBJECT", "EMPTY"}
     THEN LET g == GrabSprites(currTileCoord, spritesBuffer, spriteTileHitMap)
          IN [base EXCEPT !.outcome = IF g.panic THEN "panic" ELSE "continue",
                          !.sprites = g.sprites, !.hitMap = g.hitMap, !.map = g.map,
                          !.lookups = seen \o g.lookups, !.grabbed = <<currTileCoord>>,
                          !.line = 285]
     ELSE [base EXCEPT !.outcome = "panic", !.line = 169]

\* RenderIntoBuffers, the column loop: one iteration of column idx's while loop
RenderIntoBuffers_Ray ==
  /\ pc = "RenderIntoBuffers"
  /\ step = 1
  /\ LET r == RayStep
         advanced == IF r.outcome = "exit" THEN <<>> ELSE <<Op("GoToNextHit", idx, 0)>>
     IN /\ wallSlicesBuffer' = r.slices
        /\ spritesBuffer' = r.sprites
        /\ map' = r.map
        /\ spriteTileHitMap' = r.hitMap
        /\ lookups' = r.lookups
        /\ visits' = IF r.grabbed = <<>> THEN visits
                     ELSE [visits EXCEPT ![r.grabbed[1]] = @ + 1]
        /\ IF r.outcome = "panic"
           THEN /\ pc' = "panicked" /\ step' = 0 /\ idx' = 0
                /\ ops' = (ops \o advanced) \o <<Op("panic", r.line, 0)>>
                /\ rayCursor' = r.cursor
                /\ prevTileCoord' = r.cursor.hitTile
           ELSE IF r.outcome = "continue"
           THEN /\ pc' = pc /\ step' = 1 /\ idx' = idx
                /\ ops' = ops \o advanced
                /\ rayCursor' = r.cursor
                /\ prevTileCoord' = r.cursor.hitTile
           ELSE /\ ops' = (ops \o advanced) \o <<Op("column.end", idx, 0)>>
                /\ rayCursor' = RayCursorNew(player)
                /\ prevTileCoord' = CellOf(player)
                /\ IF idx + 1 < Width
                   THEN pc' = pc /\ step' = 1 /\ idx' = idx + 1
                   ELSE Goto(NextStmt(pc))
  /\ UNCHANGED <<player, enemies, quit, overflowChecks, frame, spritesRenderDataBuffer,
                 wallRenderHeights>>

\* mutation: the heights of the previous frame are kept
ResetWallRenderHeights_Skip == wallRenderHeights

ResetWallRenderHeights == [i \in 1 .. Len(wallRenderHeights) |-> 0]

\* DrawWallsFromBuffer, before its loop
DrawWallsFromBuffer_Reset ==
  /\ pc = "DrawWallsFromBuffer"
  /\ step = 0
  /\ wallRenderHeights' = ResetWallRenderHeights
  /\ ops' = Append(ops, Op("ResetWallRenderHeights", 0, 0))
  /\ lookups' = <<>>
  /\ IF Len(wallSlicesBuffer) = 0 THEN Goto(NextStmt(pc))
     ELSE pc' = pc /\ step' = 1 /\ idx' = 0
  /\ UNCHANGED <<updateState, wallSlicesBuffer, spritesBuffer, spritesRenderDataBuffer,
                 spriteTileHitMap, rayCursor, prevTileCoord, visits>>

\* renderHeightProprConst / (dist * castingRayAngles[x].1) as i32
WallRenderHeight(wallSlice, x) ==
  TruncDiv(RenderHeightProprConst * wallSlice.den, wallSlice.num * CastingRayAngles(x)[2])

\* DrawWallsFromBuffer, one iteration of its loop: slice idx of the buffer
DrawWallsFromBuffer_Slice ==
  /\ pc = "DrawWallsFromBuffer"
  /\ step = 1
  /\ LET renderHeight == WallRenderHeight(wallSlicesBuffer[idx + 1], idx)
     IN /\ wallRenderHeights' = [wallRenderHeights EXCEPT ![idx + 1] = renderHeight]
        /\ ops' = Append(ops, Op("wall", idx, renderHeight))
  /\ lookups' = <<>>
  /\ IF idx + 1 < Len(wallSlicesBuffer)
     THEN pc' = pc /\ step' = 1 /\ idx' = idx + 1
     ELSE Goto(NextStmt(pc))
  /\ UNCHANGED <<updateState, wallSlicesBuffer, spritesBuffer, spritesRenderDataBuffer,
                 spriteTileHitMap, rayCursor, prevTileCoord, visits>>

\* ((width/2) as f64 + (projPlaneDist / spriteHitDistY) * spriteHitDistX) as i32;
\* a zero depth makes the quotient infinite (or the product NaN, which
\* converts to 0)
SpriteScreenX(distY, distX) ==
  IF distY = 0
  THEN (IF distX > 0 THEN I32Max ELSE IF distX < 0 THEN I32Min ELSE 0)
  ELSE TruncDiv((Width \div 2) * distY + ProjPlaneDist * distX, distY)

\* (renderHeightProprConst / spriteHitDistY) as i32
SpriteRenderHeight(distY) ==
  IF distY = 0 THEN I32Max ELSE TruncDiv(RenderHeightProprConst, distY)

\* Rect::new's clamp of a position
ClampPosition(v) == IF v > RectMaxInt THEN RectMaxInt ELSE IF v < RectMinInt THEN RectMinInt ELSE v

\* `spriteRenderHeight as u32` followed by Rect::new's clamp of a size
ClampSize(h) == IF h = 0 THEN 1 ELSE IF h < 0 \/ h > RectMaxInt THEN RectMaxInt ELSE h

\* the SpriteRenderData of one sprite of the sprite buffer; overflow tells
\* that spriteScreenX - (spriteRenderHeight/2) leaves the i32 range
ProjectSprite(sprite) ==
  LET vecToSprite == <<sprite.location[1] - player[1], sprite.location[2] - player[2]>>
      spriteHitDistY == Dot(vecToSprite, ViewDir)
      spriteHitDistX == Dot(vecToSprite, East)
      spriteScreenX == SpriteScreenX(spriteHitDistY, spriteHitDistX)
      spriteRenderHeight == SpriteRenderHeight(spriteHitDistY)
      half == TruncDiv(spriteRenderHeight, 2)
  IN [vecToSprite |-> vecToSprite,
      spriteHitDistY |-> spriteHitDistY,
      spriteHitDistX |-> spriteHitDistX,
      spriteScreenX |-> spriteScreenX,
      spriteRenderHeight |-> spriteRenderHeight,
      rectX |-> ClampPosition(WrappingSub(spriteScreenX, half)),
      rectW |-> ClampSize(spriteRenderHeight),
      spriteTextureHandle |-> sprite.textureHandle,
      overflow |-> SubOverflows(spriteScreenX, half)]

\* the key spritesRenderDataBuffer is sorted by
SortKey(s) == s.spriteRenderHeight

\* sort_by is a stable sort: e goes after every element whose key is not larger
RECURSIVE InsertSorted(_, _)
InsertSorted(sorted, e) ==
  IF sorted = <<>> THEN <<e>>
  ELSE IF SortKey(sorted[Len(sorted)]) <= SortKey(e) THEN Append(sorted, e)
  ELSE Append(InsertSorted(SubSeq(sorted, 1, Len(sorted) - 1), e), sorted[Len(sorted)])

RECURSIVE SortByKey(_)
SortByKey(seq) ==
  IF seq = <<>> THEN <<>>
  ELSE InsertSorted(SortByKey(SubSeq(seq, 1, Len(seq) - 1)), seq[Len(seq)])

\* DrawSpritesFromBuffer, before its rasterization loop: project every sprite
\* of the sprite buffer, then sort the render data
DrawSpritesFromBuffer_Project ==
  /\ pc = "DrawSpritesFromBuffer"
  /\ step = 0
  /\ LET data == [i \in 1 .. Len(spritesBuffer) |-> ProjectSprite(spritesBuffer[i])]
         overflows == \E i \in 1 .. Len(data) : data[i].overflow
     IN IF overflows /\ overflowChecks
        THEN /\ spritesRenderDataBuffer' = <<>>
             /\ Panic(201)
        ELSE /\ spritesRenderDataBuffer' = SortByKey(data)
             /\ ops' = Append(ops, Op("sort", Len(data), 0))
             /\ IF Len(data) = 0 THEN Goto(NextStmt(pc))
                ELSE pc' = pc /\ step' = 1 /\ idx' = 1
  /\ lookups' = <<>>
  /\ UNCHANGED <<updateState, wallSlicesBuffer, spritesBuffer, wallRenderHeights,
                 spriteTileHitMap, rayCursor, prevTileCoord, visits>>

\* mutation: a sprite as high as the wall is not drawn
DepthTest_Strict(wallHeight, spriteHeight) == wallHeight < spriteHeight

\* self.wallRenderHeights[x] <= s.spriteRenderHeight
DepthTest(wallHeight, spriteHeight) == wallHeight <= spriteHeight

\* mutation: the test of x < 0 is missing
InRange_NoLowerBound(s, x) == x < Width /\ x >= s.rectX /\ x < s.rectX + s.rectW

\* column x belongs to the part of s's screen rectangle that is on screen
InRange(s, x) == x >= 0 /\ x < Width /\ x >= s.rectX /\ x < s.rectX + s.rectW

\* the columns for which the loop over s's rectangle reaches the depth test,
\* among the screen's columns and the first column beyond each edge
ColumnsTested(s) == {x \in -1 .. Width : InRange(s, x)}

\* the screen columns the rasterization loop draws for s, in drawing order
DrawnColumns(s) ==
  LET Drawn(x) == /\ x \in ColumnsTested(s)
                  /\ DepthTest(wallRenderHeights[x + 1], s.spriteRenderHeight)
  IN SelectSeq([i \in 1 .. Width + 2 |-> i - 2], Drawn)

\* DrawSpritesFromBuffer, one iteration of its outer loop: rasterize sprite idx
DrawSpritesFromBuffer_Sprite ==
  /\ pc = "DrawSpritesFromBuffer"
  /\ step = 1
  /\ LET cols == DrawnColumns(spritesRenderDataBuffer[idx])
     IN ops' = ops \o [k \in 1 .. Len(cols) |-> Op("sprite", idx, cols[k])]
  /\ lookups' = <<>>
  /\ IF idx < Len(spritesRenderDataBuffer)
     THEN pc' = pc /\ step' = 1 /\ idx' = idx + 1
     ELSE Goto(NextStmt(pc))
  /\ UNCHANGED <<updateState, renderState>>

DrawWeapon ==
  /\ pc = "DrawWeapon"
  /\ ops' = Append(ops, Op("DrawWeapon", 0, 0))
  /\ lookups' = <<>>
  /\ Goto(NextStmt(pc))
  /\ UNCHANGED <<updateState, renderState>>

\* self.multimedia.sdlCanvas.present()
CanvasPresent ==
  /\ pc = "present"
  /\ ops' = Append(ops, Op("present", 0, 0))
  /\ lookups' = <<>>
  /\ Goto(NextStmt(pc))
  /\ UNCHANGED <<updateState, renderState>>

Next ==
  \/ InputsBufferUpdate
  \/ UpdateEnemies_Wipe
  \/ UpdateEnemies_Inject
  \/ PlayerUpdate
  \/ UpdateDoors
  \/ QuitCheck
  \/ CanvasClear
  \/ DrawCeilingAndFloor
  \/ RenderIntoBuffers_Reset
  \/ RenderIntoBuffers_Ray
  \/ DrawWallsFromBuffer_Reset
  \/ DrawWallsFromBuffer_Slice
  \/ DrawSpritesFromBuffer_Project
  \/ DrawSpritesFromBuffer_Sprite
  \/ DrawWeapon
  \/ CanvasPresent

Spec == Init /\ [][Next]_vars

\* ======================================================================
\* Properties
\* ======================================================================
Has(name) == \E i \in 1 .. Len(ops) : ops[i].op = name

Count(name) == Cardinality({i \in 1 .. Len(ops) : ops[i].op = name})

InRenderFrame == \E i \in 1 .. Len(RenderFrame) : RenderFrame[i] = pc

\* the sprites of spritesRenderDataBuffer whose rasterization is finished
Rasterized ==
  IF ~Has("sort") THEN {}
  ELSE IF pc = "DrawSpritesFromBuffer" /\ step = 1 THEN 1 .. (idx - 1)
  ELSE 1 .. Len(spritesRenderDataBuffer)

\* sprite i's column was drawn at screen column x
DrawnAt(i, x) == \E k \in 1 .. Len(ops) : ops[k] = Op("sprite", i, x)

\* position in the frame's pipeline of a logged step, as the code orders them
RankInCode(o) ==
  CASE o.op = "clear" -> 1
    [] o.op = "DrawCeilingAndFloor" -> 2
    [] o.op = "ResetSpriteTileHitMap" -> 3
    [] o.op \in {"GoToNextHit", "column.end"} -> 4
    [] o.op = "ResetWallRenderHeights" -> 5
    [] o.op = "wall" -> 6
    [] o.op \in {"sort", "sprite"} -> 7
    [] o.op = "DrawWeapon" -> 8
    [] o.op = "present" -> 9
    [] o.op = "panic" -> 10
    [] OTHER -> 0

\* the same, with the wall-height buffer reset placed before the ray casting
RankAsClaimed(o) == IF o.op = "ResetWallRenderHeights" THEN 3 ELSE RankInCode(o)

\* every step of a frame that got as far as the weapon overlay has been done,
\* once, and the overlay is drawn once before present
FrameComplete ==
  /\ Has("DrawWeapon") =>
       /\ Count("clear") = 1
       /\ Count("DrawCeilingAndFloor") = 1
       /\ Count("ResetSpriteTileHitMap") = 1
       /\ Count("column.end") = Width
       /\ Count("ResetWallRenderHeights") = 1
       /\ Count("wall") = Len(wallSlicesBuffer)
       /\ Count("sort") = 1
       /\ Rasterized = 1 .. Len(spritesRenderDataBuffer)
  /\ Has("present") => Count("DrawWeapon") = 1
  /\ pc = "present" => Has("DrawWeapon")

\* C1 as stated: the steps of a frame run in the order clear, ceiling and
\* floor, reset of the wall-height buffer and of the tile-hit map, ray casting
\* of all columns, sprites, weapon overlay, present; the wall-height buffer is
\* reset before any column's ray is cast
C1_OrderAsClaimed ==
  /\ \A i, j \in 1 .. Len(ops) : i < j => RankAsClaimed(ops[i]) <= RankAsClaimed(ops[j])
  /\ Has("GoToNextHit") => Has("ResetWallRenderHeights")
  /\ FrameComplete

\* C1 amended: the steps of a frame run in the order clear, ceiling and floor,
\* reset of the tile-hit map, ray casting of all columns, reset of the
\* wall-height buffer, wall columns, sprites, weapon overlay, present; the
\* wall-height buffer is reset after every column's ray has been cast and
\* before any wall height is written, and the weapon overlay is drawn once,
\* after every wall column and every sprite column, whatever the buffers hold
C1_FrameOrder ==
  /\ \A i, j \in 1 .. Len(ops) : i < j => RankInCode(ops[i]) <= RankInCode(ops[j])
  /\ Has("ResetWallRenderHeights") => Count("column.end") = Width
  /\ FrameComplete

\* a frame has been presented in which walls and sprites were drawn
C1_Witness == Has("present") /\ Has("wall") /\ Has("sprite") /\ frame = 2

\* the height the current frame's wall pass has written for column x, 0 if none
HeightWritten(x) ==
  IF \E k \in 1 .. Len(ops) : ops[k].op = "wall" /\ ops[k].a = x
  THEN (ops[CHOOSE k \in 1 .. Len(ops) : ops[k].op = "wall" /\ ops[k].a = x]).b
  ELSE 0

\* C2: when the sprite pass begins and while it runs, every column's ray has
\* been cast in this frame, the wall-height buffer has been reset in this frame
\* and every slice of the buffer has been written after that, so that each
\* wall height a depth test reads is the one this frame wrote (or the reset 0)
C2_WallPassComplete ==
  pc = "DrawSpritesFromBuffer" =>
    /\ Count("column.end") = Width
    /\ Count("ResetWallRenderHeights") = 1
    /\ Count("wall") = Len(wallSlicesBuffer)
    /\ \A x \in 0 .. Width - 1 : wallRenderHeights[x + 1] = HeightWritten(x)

\* the first sprite of a second frame is about to be depth-tested
C2_Witness ==
  /\ pc = "DrawSpritesFromBuffer" /\ step = 1 /\ idx = 1 /\ frame = 2
  /\ \E x \in 0 .. Width - 1 : wallRenderHeights[x + 1] > 0

\* the sprite set of the tile at c: the static sprite of an Object tile and the
\* enemy sprites attached to the tile
TileSpriteSet(c) ==
  IF map[c].kind = "OBJECT"
  THEN <<map[c].objectSprite>> \o (IF IsEnemyHolder(map[c]) THEN GetSprites(map[c]) ELSE <<>>)
  ELSE GetSprites(map[c])

\* what the sprite buffer holds of the tile at c
Contribution(c) ==
  LET InTile(sp) == CellOf(sp.location) = c
  IN SelectSeq(spritesBuffer, InTile)

\* C3: from the reset that starts a frame's traversal on, the tile-hit map
\* marks exactly the tiles traversed in this frame, and the sprite buffer holds
\* the sprite set of every traversed Object or Empty tile once and nothing of
\* the others, however many columns traversed it; at the start of the
\* traversal the map is all-false and the buffer empty
C3_TileHitIdempotence ==
  Has("ResetSpriteTileHitMap") =>
    /\ \A c \in Cells :
         /\ spriteTileHitMap[c] = (visits[c] >= 1)
         /\ map[c].kind \in {"OBJECT", "EMPTY"} =>
              Contribution(c) = IF visits[c] >= 1 THEN TileSpriteSet(c) ELSE <<>>
         /\ map[c].kind \notin {"OBJECT", "EMPTY"} => visits[c] = 0
    /\ ~Has("GoToNextHit") =>
         /\ spritesBuffer = <<>>
         /\ \A c \in Cells : ~spriteTileHitMap[c]

\* in a second frame a tile holding two sprites has been traversed twice
C3_Witness ==
  /\ Has("ResetSpriteTileHitMap") /\ frame = 2
  /\ \E c \in Cells : visits[c] >= 2 /\ Len(TileSpriteSet(c)) >= 2 /\ Len(Contribution(c)) = 2

\* C4: when the cursor's new cell is outside the map the column stops without
\* a tile lookup on that cell and without a crash
C4_OutOfBoundsColumnStops ==
  /\ \A i \in 1 .. Len(lookups) : WithinMap(lookups[i].cell)
  /\ (Has("GoToNextHit") /\ ~WithinMap(rayCursor.hitTile)) => pc # "panicked"

\* C5 as stated: a column of a sprite's screen rectangle that is on screen is
\* drawn iff the sprite's render height is strictly greater than the wall
\* height of the column
C5_OcclusionStrict ==
  \A i \in Rasterized : \A x \in 0 .. Width - 1 :
    LET s == spritesRenderDataBuffer[i]
    IN InRange(s, x) => (DrawnAt(i, x) <=> s.spriteRenderHeight > wallRenderHeights[x + 1])

\* C5 amended: a column of a sprite's screen rectangle that is on screen is
\* drawn iff the wall height of the column is less than or equal to the
\* sprite's render height (a sprite as high as the wall is drawn); columns off
\* the rectangle are not drawn
C5_Occlusion ==
  \A i \in Rasterized : \A x \in 0 .. Width - 1 :
    LET s == spritesRenderDataBuffer[i]
    IN /\ InRange(s, x) => (DrawnAt(i, x) <=> s.spriteRenderHeight >= wallRenderHeights[x + 1])
       /\ ~InRange(s, x) => ~DrawnAt(i, x)

\* a sprite has a column as high as the wall (drawn) and one lower than the
\* wall (not drawn)
C5_Witness ==
  \E i \in Rasterized : \E x, y \in 0 .. Width - 1 :
    LET s == spritesRenderDataBuffer[i]
    IN /\ InRange(s, x) /\ s.spriteRenderHeight = wallRenderHeights[x + 1] /\ DrawnAt(i, x)
       /\ InRange(s, y) /\ s.spriteRenderHeight < wallRenderHeights[y + 1] /\ ~DrawnAt(i, y)

\* position in ops of the drawing of sprite i's column x
DrawPos(i, x) == CHOOSE k \in 1 .. Len(ops) : ops[k] = Op("sprite", i, x)

\* C6: of two sprites in front of the player at different depths, the nearer
\* one's column is drawn after the farther one's at every column both draw
C6_NearerDrawnLast ==
  \A i, j \in Rasterized : \A x \in 0 .. Width - 1 :
    LET near == spritesRenderDataBuffer[i]
        far == spritesRenderDataBuffer[j]
    IN (/\ near.spriteHitDistY > 0
        /\ near.spriteHitDistY < far.spriteHitDistY
        /\ DrawnAt(i, x) /\ DrawnAt(j, x)) => DrawPos(i, x) > DrawPos(j, x)

\* C7: a sprite of the buffer whose depth is not positive has no column drawn,
\* and projecting it does not abort the frame
C7_DegenerateSpriteExcluded ==
  /\ \A i \in Rasterized : \A x \in 0 .. Width - 1 :
       spritesRenderDataBuffer[i].spriteHitDistY <= 0 => ~DrawnAt(i, x)
  /\ ~(pc = "panicked" /\ ops[Len(ops)] = Op("panic", 201, 0))

\* C8: a tile lookup of the traversal, of the sprite collection or of the
\* enemy-sprite wipe or injection that yields the None variant, and a lookup
\* of the sprite collection that yields neither Object nor Empty, ends the
\* process
C8_MapIntegrityFatal ==
  \A i \in 1 .. Len(lookups) :
    (\/ lookups[i].kind = "NONE"
     \/ (lookups[i].site = "GrabSprites" /\ lookups[i].kind \notin {"OBJECT", "EMPTY"}))
      => pc = "panicked"

\* the sprite of enemy e made in the current frame
SpriteOf(e) ==
  [location |-> e.location, textureHandle |-> <<"ENEMY", e.id>>, owner |-> e.id, frame |-> frame]

\* one sprite of the current frame for each enemy located in the tile at c
EnemySpritesIn(c) ==
  LET InTile(e) == CellOf(e.location) = c
      here == SelectSeq(enemies, InTile)
  IN [k \in 1 .. Len(here) |-> SpriteOf(here[k])]

\* C9: from the start of a frame's rendering to its end, the enemy sprite list
\* of every Object or Empty tile holds exactly one sprite, made in this frame,
\* for each enemy located in the tile; all lists were wiped before the first
\* sprite was injected
C9_EnemySpritesRebuilt ==
  /\ InRenderFrame =>
       \A c \in Cells :
         map[c].kind \in {"OBJECT", "EMPTY"} => map[c].enemySprites = EnemySpritesIn(c)
  /\ \A i, j \in 1 .. Len(ops) :
       (ops[i].op = "enemySprites.clear" /\ ops[j].op = "enemySprites.push") => i < j
  /\ \A i, j \in 1 .. Len(ops) :
       (ops[i].op = "enemySprites.push" /\ ops[j].op = "GoToNextHit") => i < j

\* in a second frame both enemies have moved into one tile and the traversal
\* is under way
C9_Witness ==
  /\ pc = "RenderIntoBuffers" /\ step = 1 /\ frame = 2
  /\ Len(map[CellOf(EnemySpotD)].enemySprites) = 2
  /\ enemies[2].location = EnemySpotD

\* the steps Update logs, in order, up to the quit test
UpdateDone ==
  /\ Len(ops) >= 4 + Len(enemies)
  /\ ops[1].op = "inputsBuffer.Update"
  /\ ops[2].op = "enemySprites.clear"
  /\ \A k \in 1 .. Len(enemies) : ops[2 + k].op \in {"enemySprites.push", "enemy.skip"}
  /\ ops[3 + Len(enemies)].op = "player.Update"
  /\ ops[4 + Len(enemies)].op = "map.UpdateDoors"

QuitPos == 5 + Len(enemies)

\* C10: in every iteration the quit signal is tested once, after Update and
\* before RenderFrame; the loop exits without rendering when it is set, and
\* renders exactly one frame before the next Update when it is not; nothing is
\* rendered before the first Update or after the exit
C10_LoopOrder ==
  /\ frame = 0 => ops = <<>>
  /\ Count("quit?") <= 1
  /\ Has("quit?") => (UpdateDone /\ ops[QuitPos].op = "quit?")
  /\ \A k \in 1 .. Len(ops) : RankInCode(ops[k]) \in 1 .. 9 => (k > QuitPos /\ Has("quit?") /\ ~quit)
  /\ (InRenderFrame \/ pc = "quit?") => UpdateDone
  /\ InRenderFrame => (Has("quit?") /\ ~quit)
  /\ pc = "exited" => (quit /\ Len(ops) = QuitPos /\ Has("quit?"))
  /\ (pc = "inputsBuffer.Update" /\ frame >= 1) =>
       (Count("clear") = 1 /\ Count("present") = 1 /\ ops[Len(ops)].op = "present")

\* the loop has exited in its second iteration, after one rendered frame
C10_Witness == pc = "exited" /\ frame = 2

\* ---------------------------------------------------------------- C11
\* every cell of the grid's border is a Wall
Enclosed == \A c \in Cells : OnBorder(c) => map[c].kind = "WALL"

PlayerInside == WithinMap(CellOf(player)) /\ ~OnBorder(CellOf(player))

\* the ray of a column followed over the map from cursor cur on, `from` the
\* cell it is leaving: where it first meets a Wall or a Door that yields a
\* slice (found), or that it runs off the grid or into an unset tile first
RECURSIVE FollowRay(_, _)
FollowRay(cur, dir) ==
  IF ~WithinMap(cur.hitTile) THEN [found |-> FALSE, from |-> cur.hitTile, cursor |-> cur]
  ELSE LET nxt == GoToNextHit(cur, player, dir)
           c == nxt.hitTile
       IN IF ~WithinMap(c) \/ map[c].kind = "NONE"
          THEN [found |-> FALSE, from |-> cur.hitTile, cursor |-> nxt]
          ELSE IF map[c].kind = "WALL" \/ (map[c].kind = "DOOR" /\ DoorGetWallSlice(map[c], nxt) # <<>>)
          THEN [found |-> TRUE, from |-> cur.hitTile, cursor |-> nxt]
          ELSE FollowRay(nxt, dir)

\* the first terminal surface on column x's ray
ColumnHit(x) == FollowRay(RayCursorNew(player), CastingRayAngles(x))

\* slice sl is the slice of the surface hit h: same tile type, same distance
SliceOfHit(sl, h) ==
  /\ h.found
  /\ sl.textureHandle[1] = map[h.cursor.hitTile].kind
  /\ sl.num = h.cursor.num
  /\ sl.den = h.cursor.den

\* the current frame's RenderIntoBuffers has returned
TraversalDone == Count("column.end") = Width

\* the current frame's RenderIntoBuffers is in its column loop
InTraversal == pc = "RenderIntoBuffers" /\ step = 1

\* C11: in a map enclosed by a ring of Wall tiles, with the player inside,
\* every column whose traversal has ended has put exactly one slice into the
\* wall-slice buffer; when RenderIntoBuffers returns the buffer has Width
\* entries and entry x is the slice of the first surface on column x's ray;
\* the traversal of such a map ends the process only on an unset tile
C11_OneSlicePerColumn ==
  (Enclosed /\ PlayerInside) =>
    /\ InTraversal =>
         /\ Len(wallSlicesBuffer) = idx
         /\ \A x \in 0 .. idx - 1 : SliceOfHit(wallSlicesBuffer[x + 1], ColumnHit(x))
    /\ TraversalDone =>
         /\ Len(wallSlicesBuffer) = Width
         /\ \A x \in 0 .. Width - 1 : SliceOfHit(wallSlicesBuffer[x + 1], ColumnHit(x))
    /\ (pc = "panicked" /\ Has("GoToNextHit") /\ ops[Len(ops)].a \in {169, 285}) =>
         \E c \in Cells : map[c].kind = "NONE"

\* in a second frame the traversal of an enclosed map has returned with a
\* Door's slice and a Wall's slice, at different distances
C11_Witness ==
  /\ Enclosed /\ PlayerInside /\ TraversalDone /\ frame = 2
  /\ Len(wallSlicesBuffer) = Width
  /\ \E x, y \in 1 .. Width :
       /\ wallSlicesBuffer[x].textureHandle[1] = "DOOR"
       /\ wallSlicesBuffer[y].textureHandle[1] = "WALL"
       /\ wallSlicesBuffer[x].num * wallSlicesBuffer[y].den
            # wallSlicesBuffer[y].num * wallSlicesBuffer[x].den

\* ---------------------------------------------------------------- C12
\* the current frame's wall pass has returned
WallPassDone ==
  /\ Has("ResetWallRenderHeights")
  /\ Count("wall") = Len(wallSlicesBuffer)
  /\ pc # "DrawWallsFromBuffer"

\* the render height of the surface column x's own ray hits first, with
\* column x's own fisheye cosine; 0 if the ray hits none
OwnHeight(x) ==
  LET h == ColumnHit(x)
  IN IF h.found
     THEN TruncDiv(RenderHeightProprConst * h.cursor.den, h.cursor.num * CastingRayAngles(x)[2])
     ELSE 0

Advances(x) == Cardinality({k \in 1 .. Len(ops) : ops[k] = Op("GoToNextHit", x, 0)})

ColumnEnded(x) == \E k \in 1 .. Len(ops) : ops[k] = Op("column.end", x, 0)

\* one iteration of a column's loop that advances the cursor: what it did
\* with the cell it entered
AdvanceAsClaimed ==
  LET cur == GoToNextHit(rayCursor, player, CastingRayAngles(idx))
      entered == lookups'[Len(lookups')]
      tile == map[entered.cell]
      terminal == \/ entered.kind = "WALL"
                  \/ (entered.kind = "DOOR" /\ DoorGetWallSlice(tile, cur) # <<>>)
      pushed == Len(wallSlicesBuffer') = Len(wallSlicesBuffer) + 1
      goesOn == pc' = pc /\ step' = step /\ idx' = idx /\ rayCursor'.hitTile = cur.hitTile
      ended == /\ ops'[Len(ops')] = Op("column.end", idx, 0)
               /\ rayCursor'.hitTile = CellOf(player)
               /\ (pc' = pc => idx' = idx + 1)
  IN /\ entered.kind \in {"WALL", "DOOR"} =>
          /\ spritesBuffer' = spritesBuffer
          /\ spriteTileHitMap' = spriteTileHitMap
          /\ visits' = visits
     /\ terminal =>
          /\ pushed /\ ended
          /\ SubSeq(wallSlicesBuffer', 1, Len(wallSlicesBuffer)) = wallSlicesBuffer
          /\ SliceOfHit(wallSlicesBuffer'[Len(wallSlicesBuffer')], ColumnHit(idx))
          /\ ColumnHit(idx).cursor.hitTile = entered.cell
     /\ (entered.kind = "DOOR" /\ ~terminal) => (wallSlicesBuffer' = wallSlicesBuffer /\ goesOn)
     /\ entered.kind \in {"OBJECT", "EMPTY"} => (wallSlicesBuffer' = wallSlicesBuffer /\ goesOn)

\* C13: each column emits at most one wall slice, the slice of the first cell
\* on its ray that is a Wall or a Door yielding a slice; entering that cell
\* ends the column, so that no cell behind it is visited; a Door yielding no
\* slice, an Object and an Empty cell emit no slice and do not end the column
C13_FirstTerminalSurface ==
  [][(InTraversal /\ WithinMap(rayCursor.hitTile)) =>
       /\ AdvanceAsClaimed
       /\ Len(wallSlicesBuffer) <= idx
       /\ Len(wallSlicesBuffer') <= idx + 1]_vars

\* in a second frame a column has passed an open Door and the Empty cell
\* behind it and has ended at the Wall behind them with its slice
C13_Witness ==
  /\ frame = 2 /\ map[DoorCell].kind = "DOOR" /\ map[DoorCell].open
  /\ \E x \in 0 .. Width - 1 :
       /\ ColumnEnded(x) /\ Advances(x) >= 3
       /\ Len(wallSlicesBuffer) > x
       /\ wallSlicesBuffer[x + 1].textureHandle[1] = "WALL"
       /\ ColumnHit(x).from = <<DoorCell[1], DoorCell[2] + 1>>
       /\ visits[ColumnHit(x).from] >= 1

\* ---------------------------------------------------------------- C14
JambHandles == {<<"WALL", GateSidewallLit>>, <<"WALL", GateSidewallUnlit>>}

\* one iteration of a column's loop that pushes a slice: the texture handle
\* of the slice, `exited` being the cell the cursor was in before the advance
TextureAsClaimed ==
  LET exited == rayCursor.hitTile
      cur == GoToNextHit(rayCursor, player, CastingRayAngles(idx))
      entered == lookups'[Len(lookups')]
      own == <<entered.kind, map[entered.cell].tex>>
      new == wallSlicesBuffer'[Len(wallSlicesBuffer')]
  IN /\ prevTileCoord = exited
     /\ entered.kind = "WALL" =>
          /\ new.textureHandle \in JambHandles <=> map[exited].kind = "DOOR"
          /\ map[exited].kind = "DOOR" =>
               new.textureHandle = LightTexture(cur, <<"WALL", GateSidewallLit>>,
                                                <<"WALL", GateSidewallUnlit>>)
          /\ map[exited].kind # "DOOR" => new.textureHandle = own
     /\ entered.kind = "DOOR" => new.textureHandle = own

\* C14: the texture handle of a Wall's slice is one of the two jamb handles
\* (101 lit, 102 unlit, chosen by the lighting predicate on the cursor at the
\* hit) iff the cell the ray left when it entered the Wall is a Door; a Wall
\* entered from any other cell and a Door's own slice keep their own handle
C14_DoorJamb ==
  [][(InTraversal /\ Len(wallSlicesBuffer') = Len(wallSlicesBuffer) + 1) => TextureAsClaimed]_vars

\* the traversal of a second frame has returned with two Wall slices entered
\* from open Doors, one carrying the lit and one the unlit jamb handle, and a
\* Wall slice entered from an Empty or Object cell with its own handle
C14_Witness ==
  /\ TraversalDone /\ frame = 2
  /\ \E x, y, z \in 0 .. Width - 1 :
       /\ ColumnHit(x).found /\ ColumnHit(x).from = DoorCell
       /\ wallSlicesBuffer[x + 1].textureHandle = <<"WALL", GateSidewallLit>>
       /\ ColumnHit(y).found /\ ColumnHit(y).from = FarDoorCell
       /\ wallSlicesBuffer[y + 1].textureHandle = <<"WALL", GateSidewallUnlit>>
       /\ ColumnHit(z).found /\ map[ColumnHit(z).from].kind \in {"EMPTY", "OBJECT"}
       /\ wallSlicesBuffer[z + 1].textureHandle = <<"WALL", WallTile.tex>>

\* ---------------------------------------------------------------- C15
\* the columns drawn for sprite i of spritesRenderDataBuffer, as logged
ColumnsDrawn(i) == {ops[k].b : k \in {j \in 1 .. Len(ops) : ops[j].op = "sprite" /\ ops[j].a = i}}

\* the on-screen columns of s's rectangle at which the wall is not higher
ColumnsDue(s) ==
  {x \in 0 .. Width - 1 :
     /\ s.rectX <= x /\ x < s.rectX + s.rectW
     /\ wallRenderHeights[x + 1] <= s.spriteRenderHeight}

\* C15: no sprite's loop reaches the depth test, and so the wall-height
\* buffer, with a column outside [0, Width); every sprite of the buffer,
\* whatever its depth, size or rank, has been drawn at exactly the on-screen
\* columns of its rectangle where the wall height is less than or equal to its
\* render height, each once and from left to right
C15_RasterBounds ==
  /\ \A i \in 1 .. Len(spritesRenderDataBuffer) :
       ColumnsTested(spritesRenderDataBuffer[i]) \subseteq 0 .. Width - 1
  /\ \A i \in Rasterized :
       /\ ColumnsDrawn(i) = ColumnsDue(spritesRenderDataBuffer[i])
       /\ Cardinality({k \in 1 .. Len(ops) : ops[k].op = "sprite" /\ ops[k].a = i})
            = Cardinality(ColumnsDrawn(i))
  /\ \A j, k \in 1 .. Len(ops) :
       (j < k /\ ops[j].op = "sprite" /\ ops[k].op = "sprite" /\ ops[j].a = ops[k].a)
         => ops[j].b < ops[k].b
  /\ \A k \in 1 .. Len(ops) : ops[k].op = "sprite" => ops[k].a \in Rasterized \cup {idx}

\* a sprite whose rectangle begins left of the screen has been drawn at one
\* column and refused at another, and a sprite whose rectangle begins right
\* of the screen has been drawn at none
C15_Witness ==
  /\ \E i \in Rasterized :
       LET s == spritesRenderDataBuffer[i]
       IN /\ s.rectX < 0 /\ s.spriteRenderHeight > 0
          /\ ColumnsDrawn(i) # {}
          /\ ColumnsDrawn(i) # 0 .. Width - 1
  /\ \E i \in Rasterized :
       LET s == spritesRenderDataBuffer[i]
       IN /\ s.rectX >= Width
          /\ ColumnsTested(s) = {}
          /\ ColumnsDrawn(i) = {}

\* ---------------------------------------------------------------- C16
\* RenderFrame has been entered in the current iteration
FrameStarted == Has("clear")

\* C16: a frame that has been started on a map without unset tiles, with the
\* player inside the grid, is not cut short: every column's loop ends after
\* at most MapW + MapH cursor advances, also when its ray leaves the grid,
\* and the process does not end before present
C16_FrameRunsToCompletion ==
  /\ \A x \in 0 .. Width - 1 : Advances(x) <= MapW + MapH
  /\ (FrameStarted /\ WithinMap(CellOf(player)) /\ \A c \in Cells : map[c].kind # "NONE")
       => pc # "panicked"

\* ---------------------------------------------------------------- C17
\* C17: no step of RenderFrame changes a tile of the map (kind, door state,
\* static sprite, enemy sprite list), the player, the enemy list, the quit
\* signal or the iteration count; only the wall-slice buffer, the sprite
\* buffers, the wall-height buffer and the tile-hit map change
C17_RenderKeepsWorld ==
  [][InRenderFrame => /\ map' = map
                      /\ player' = player
                      /\ enemies' = enemies
                      /\ quit' = quit
                      /\ frame' = frame]_vars

\* a second frame has been presented after the sprites of a tile holding the
\* static sprite and an enemy sprite were collected, and the tile still holds
\* them; every buffer of the frame has been filled
C17_Witness ==
  /\ Has("present") /\ frame = 2
  /\ visits[ObjectCell] >= 1
  /\ map[ObjectCell].kind = "OBJECT"
  /\ Len(map[ObjectCell].enemySprites) >= 1
  /\ Len(Contribution(ObjectCell)) >= 2
  /\ Len(wallSlicesBuffer) = Width
  /\ \E x \in 1 .. Width : wallRenderHeights[x] > 0
  /\ \E c \in Cells : spriteTileHitMap[c]

====
